---- MODULE Spec2Model ----
(***************************************************************************)
(* charms.reactive endpoints: the Endpoint / Relation / RelatedUnit object *)
(* graph that is rebuilt for every hook, the automatic flags, the data     *)
(* views and the deferred publication of the local unit's relation data.   *)
(* Strings are TLA+ strings; Python dicts are functions whose DOMAIN is    *)
(* the set of keys present.                                                *)
(***************************************************************************)
EXTENDS Integers, Sequences, FiniteSets, TLC

(***************************************************************************)
(* Bounds of the model.                                                    *)
(***************************************************************************)
\* hooks run in one behaviour
MaxEvents == 2
\* changes of the environment between hooks, in one behaviour
MaxEnvSteps == 3
\* flags the handlers clear inside one hook
MaxOps == 1
\* operations of the handlers on data views inside one hook
MaxViewOps == 2

(***************************************************************************)
(* Python str: comparison, prefix, suffix, search and split.               *)
(***************************************************************************)
\* the characters of the model's strings, in code point order
Alphabet == " \",-./0123456789:[\\]abcdefghijklmnopqrstuvwxyz{}"

CharAt(s, i) == SubSeq(s, i, i)

Ord(c) == CHOOSE i \in 1..Len(Alphabet) : CharAt(Alphabet, i) = c

\* s < t for Python str: the first differing character decides, a proper
\* prefix is smaller
StrLess(s, t) ==
    \E i \in 1..(Len(t)) :
        /\ i <= Len(s) + 1
        /\ SubSeq(s, 1, i - 1) = SubSeq(t, 1, i - 1)
        /\ \/ i = Len(s) + 1
           \/ i <= Len(s) /\ Ord(CharAt(s, i)) < Ord(CharAt(t, i))

StartsWith(s, p) == Len(p) <= Len(s) /\ SubSeq(s, 1, Len(p)) = p

EndsWith(s, p) ==
    Len(p) <= Len(s) /\ SubSeq(s, Len(s) - Len(p) + 1, Len(s)) = p

\* c in s, for a one-character c
HasChar(s, c) == \E i \in 1..Len(s) : CharAt(s, i) = c

\* s.split(c)[0]
SplitHead(s, c) ==
    IF HasChar(s, c)
    THEN LET i == CHOOSE j \in 1..Len(s) :
                      /\ CharAt(s, j) = c
                      /\ \A k \in 1..(j - 1) : CharAt(s, k) # c
         IN SubSeq(s, 1, i - 1)
    ELSE s

\* s.split(c): the parts of s between the occurrences of c
RECURSIVE Split(_, _)
Split(s, c) ==
    IF HasChar(s, c)
    THEN <<SplitHead(s, c)>> \o Split(SubSeq(s, Len(SplitHead(s, c)) + 2, Len(s)), c)
    ELSE <<s>>

\* what follows the first c in s
SplitTail(s, c) == SubSeq(s, Len(SplitHead(s, c)) + 2, Len(s))

(***************************************************************************)
(* sorted(): the elements of a finite set as an ascending sequence.        *)
(***************************************************************************)
RECURSIVE SortedStrings(_)
SortedStrings(S) ==
    IF S = {} THEN <<>>
    ELSE LET m == CHOOSE x \in S : \A y \in S \ {x} : StrLess(x, y)
         IN <<m>> \o SortedStrings(S \ {m})

(***************************************************************************)
(* Python dict.                                                            *)
(***************************************************************************)
EmptyDict == <<>>

DictSet(d, k, v) == [x \in (DOMAIN d) \cup {k} |-> IF x = k THEN v ELSE d[x]]

DictDel(d, k) == [x \in (DOMAIN d) \ {k} |-> d[x]]

\* dict.update: the entries of e replace those of d
DictUpdate(d, e) ==
    [x \in (DOMAIN d) \cup (DOMAIN e) |-> IF x \in DOMAIN e THEN e[x] ELSE d[x]]

(***************************************************************************)
(* Python values seen through the views.  A raw value is a str; a decoded  *)
(* value is None, a str or a number (kept as its JSON numeral).            *)
(***************************************************************************)
None == [t |-> "none"]

PyStr(s) == [t |-> "str", s |-> s]

PyNum(s) == [t |-> "num", s |-> s]

\* the value that signals json.JSONDecodeError
DecodeError == [t |-> "error"]

Digits == {"0", "1", "2", "3", "4", "5", "6", "7", "8", "9"}

\* str.strip() of the blanks json.loads skips around a document
RECURSIVE Strip(_)
Strip(s) ==
    IF Len(s) > 0 /\ CharAt(s, 1) = " " THEN Strip(SubSeq(s, 2, Len(s)))
    ELSE IF Len(s) > 0 /\ CharAt(s, Len(s)) = " " THEN Strip(SubSeq(s, 1, Len(s) - 1))
    ELSE s

IsNumeral(s) ==
    /\ Len(s) > 0
    /\ \A i \in 1..Len(s) : CharAt(s, i) \in Digits
    /\ Len(s) > 1 => CharAt(s, 1) # "0"

\* the text between the quotes of a JSON string, unescaped; DecodeError
\* for a bare quote or a bad escape
RECURSIVE Unescape(_)
Unescape(s) ==
    IF s = "" THEN PyStr("")
    ELSE IF CharAt(s, 1) = "\""
    THEN DecodeError
    ELSE IF CharAt(s, 1) = "\\"
    THEN IF Len(s) >= 2 /\ CharAt(s, 2) \in {"\"", "\\"}
         THEN LET r == Unescape(SubSeq(s, 3, Len(s)))
              IN IF r = DecodeError THEN r ELSE PyStr(CharAt(s, 2) \o r.s)
         ELSE DecodeError
    ELSE LET r == Unescape(SubSeq(s, 2, Len(s)))
         IN IF r = DecodeError THEN r ELSE PyStr(CharAt(s, 1) \o r.s)

\* list, tuple and dict values: the items of a list or tuple, and the keys
\* of a dict in insertion order with their values
PyList(items) == [t |-> "list", items |-> items]

PyTuple(items) == [t |-> "tuple", items |-> items]

PyDict(keys, vals) == [t |-> "dict", keys |-> keys, vals |-> vals]

\* a == b of Python on the values of the model
RECURSIVE PyEq(_, _)
PyEq(a, b) ==
    IF a.t \in {"list", "tuple"}
    THEN /\ b.t = a.t
         /\ Len(b.items) = Len(a.items)
         /\ \A i \in 1..Len(a.items) : PyEq(a.items[i], b.items[i])
    ELSE IF a.t = "dict"
    THEN /\ b.t = "dict"
         /\ {a.keys[i] : i \in 1..Len(a.keys)} = {b.keys[i] : i \in 1..Len(b.keys)}
         /\ \A i \in 1..Len(a.keys), j \in 1..Len(b.keys) :
                a.keys[i] = b.keys[j] => PyEq(a.vals[i], b.vals[j])
    ELSE a = b

\* the index of the quote that closes the JSON string opened before
\* position i of s, 0 when there is none
RECURSIVE ScanString(_, _)
ScanString(s, i) ==
    IF i > Len(s) THEN 0
    ELSE IF CharAt(s, i) = "\"" THEN i
    ELSE IF CharAt(s, i) = "\\" THEN ScanString(s, i + 2)
    ELSE ScanString(s, i + 1)

\* the length of the run of digits at the head of s
RECURSIVE DigitRun(_)
DigitRun(s) ==
    IF Len(s) > 0 /\ CharAt(s, 1) \in Digits
    THEN 1 + DigitRun(SubSeq(s, 2, Len(s)))
    ELSE 0

RECURSIVE LStrip(_)
LStrip(s) ==
    IF Len(s) > 0 /\ CharAt(s, 1) = " " THEN LStrip(SubSeq(s, 2, Len(s))) ELSE s

\* the JSON decoder: the value at the head of a text and the text after it,
\* or DecodeError
RECURSIVE ParseValue(_)
RECURSIVE ParseItems(_, _)
RECURSIVE ParseMembers(_, _, _)
ParseValue(raw) ==
    LET s == LStrip(raw)
    IN IF StartsWith(s, "null")
       THEN [v |-> None, rest |-> SubSeq(s, 5, Len(s))]
       ELSE IF StartsWith(s, "\"")
       THEN LET e == ScanString(s, 2)
                u == IF e = 0 THEN DecodeError ELSE Unescape(SubSeq(s, 2, e - 1))
            IN IF u = DecodeError THEN DecodeError
               ELSE [v |-> u, rest |-> SubSeq(s, e + 1, Len(s))]
       ELSE IF DigitRun(s) > 0
       THEN LET n == DigitRun(s)
            IN IF IsNumeral(SubSeq(s, 1, n))
               THEN [v |-> PyNum(SubSeq(s, 1, n)), rest |-> SubSeq(s, n + 1, Len(s))]
               ELSE DecodeError
       ELSE IF StartsWith(s, "[")
       THEN LET t == LStrip(SubSeq(s, 2, Len(s)))
            IN IF StartsWith(t, "]")
               THEN [v |-> PyList(<<>>), rest |-> SubSeq(t, 2, Len(t))]
               ELSE ParseItems(t, <<>>)
       ELSE IF StartsWith(s, "{")
       THEN LET t == LStrip(SubSeq(s, 2, Len(s)))
            IN IF StartsWith(t, "}")
               THEN [v |-> PyDict(<<>>, <<>>), rest |-> SubSeq(t, 2, Len(t))]
               ELSE ParseMembers(t, <<>>, <<>>)
       ELSE DecodeError

\* the items of an array after '[' or ',', up to ']'
ParseItems(s, items) ==
    LET r == ParseValue(s)
    IN IF r = DecodeError THEN DecodeError
       ELSE LET t == LStrip(r.rest)
            IN IF StartsWith(t, "]")
               THEN [v |-> PyList(Append(items, r.v)), rest |-> SubSeq(t, 2, Len(t))]
               ELSE IF StartsWith(t, ",")
               THEN ParseItems(SubSeq(t, 2, Len(t)), Append(items, r.v))
               ELSE DecodeError

\* the members of an object after '{' or ',', up to '}'; a key given again
\* keeps its place and takes the later value
ParseMembers(s, keys, vals) ==
    LET k == ParseValue(s)
    IN IF k = DecodeError THEN DecodeError
       ELSE IF k.v.t # "str" \/ ~StartsWith(LStrip(k.rest), ":") THEN DecodeError
       ELSE LET r == ParseValue(SubSeq(LStrip(k.rest), 2, Len(LStrip(k.rest))))
            IN IF r = DecodeError THEN DecodeError
               ELSE LET t == LStrip(r.rest)
                        seen == \E i \in 1..Len(keys) : keys[i] = k.v
                        ks == IF seen THEN keys ELSE Append(keys, k.v)
                        vs == IF seen
                              THEN [i \in 1..Len(vals) |->
                                        IF keys[i] = k.v THEN r.v ELSE vals[i]]
                              ELSE Append(vals, r.v)
                    IN IF StartsWith(t, "}")
                       THEN [v |-> PyDict(ks, vs), rest |-> SubSeq(t, 2, Len(t))]
                       ELSE IF StartsWith(t, ",")
                       THEN ParseMembers(SubSeq(t, 2, Len(t)), ks, vs)
                       ELSE DecodeError

\* json.loads: one value and nothing but blanks after it
json_loads(raw) ==
    LET r == ParseValue(raw)
    IN IF r = DecodeError THEN DecodeError
       ELSE IF LStrip(r.rest) # "" THEN DecodeError
       ELSE r.v

RECURSIVE Escape(_)
Escape(s) ==
    IF s = "" THEN ""
    ELSE (IF CharAt(s, 1) \in {"\"", "\\"} THEN "\\" ELSE "")
         \o CharAt(s, 1) \o Escape(SubSeq(s, 2, Len(s)))

\* the number a numeral stands for
RECURSIVE StrToNat(_)
StrToNat(s) ==
    IF s = "" THEN 0
    ELSE 10 * StrToNat(SubSeq(s, 1, Len(s) - 1)) + (Ord(CharAt(s, Len(s))) - Ord("0"))

\* the order sort_keys puts the keys of a dict in: numbers by value, strings
\* as strings
KeyLess(a, b) ==
    IF a.t = "num" /\ b.t = "num" THEN StrToNat(a.s) < StrToNat(b.s)
    ELSE StrLess(a.s, b.s)

\* mutant of SortedKeys: the keys stay in insertion order
RECURSIVE InsertionOrder(_, _)
InsertionOrder(keys, todo) ==
    IF todo = {} THEN <<>>
    ELSE LET i == CHOOSE x \in todo : \A y \in todo : x <= y
         IN <<i>> \o InsertionOrder(keys, todo \ {i})

\* the positions of the keys of a dict, in the order of the keys
RECURSIVE SortedKeys(_, _)
SortedKeys(keys, todo) ==
    IF todo = {} THEN <<>>
    ELSE LET i == CHOOSE x \in todo : \A y \in todo \ {x} : KeyLess(keys[x], keys[y])
         IN <<i>> \o SortedKeys(keys, todo \ {i})

\* the text of a key of an object: a number key is written as a string
KeyText(k) == "\"" \o Escape(k.s) \o "\""

\* json.dumps(value, sort_keys=True), with the separators ', ' and ': '
RECURSIVE json_dumps(_)
RECURSIVE DumpItems(_)
RECURSIVE DumpMembers(_, _)
json_dumps(v) ==
    IF v = None THEN "null"
    ELSE IF v.t = "num" THEN v.s
    ELSE IF v.t \in {"list", "tuple"} THEN "[" \o DumpItems(v.items) \o "]"
    ELSE IF v.t = "dict"
    THEN "{" \o DumpMembers(v, SortedKeys(v.keys, 1..Len(v.keys))) \o "}"
    ELSE "\"" \o Escape(v.s) \o "\""

DumpItems(items) ==
    IF items = <<>> THEN ""
    ELSE json_dumps(Head(items))
         \o (IF Len(items) > 1 THEN ", " ELSE "") \o DumpItems(Tail(items))

DumpMembers(d, order) ==
    IF order = <<>> THEN ""
    ELSE KeyText(d.keys[Head(order)]) \o ": " \o json_dumps(d.vals[Head(order)])
         \o (IF Len(order) > 1 THEN ", " ELSE "") \o DumpMembers(d, Tail(order))

(***************************************************************************)
(* The data of the model's hooks.                                          *)
(***************************************************************************)
\* relation types of the charm whose relation factory is an Endpoint
EndpointTypes == {"db", "endpoint", "web"}

\* a relation type whose relation factory is not an Endpoint
OtherTypes == {"nrpe"}

\* relation ids, unit names, fields and raw values of the environment
Rids == {"db:10", "db:2", "web:3"}

UnitNames == {"app/0", "app/1"}

Fields == {"k0", "k1"}

RawVals == {"x", "\"x\"", "1"}

\* the values handlers assign through the JSON view
PyVals == {PyStr("x"), PyNum("1"), None}

HookNames ==
    {"db-relation-changed", "db-relation-departed", "web-relation-departed",
     "config-changed"}

\* the relations and units that come and go between the hooks of a behaviour
EnvRids == {"db:10", "db:2"}

EnvUnitNames == {"app/0"}

VARIABLES
    envRels,    \* hookenv.relation_ids: the active relations
    envBare,    \* the relations whose id the environment reports without
                \* the endpoint name prefix
    envUnits,   \* hookenv.related_units, by relation id
    envRemote,  \* hookenv.relation_get of a remote unit, by <<rid, unit>>
    envLocal,   \* hookenv.relation_get of the local unit, by relation id
    flags,      \* the persisted flags that are set
    kv,         \* the store of data_changed: data key -> last serialized value
    pc,         \* "idle", "body" (handlers run), "done", "failed"
    hook,       \* hookenv.hook_name()
    endpoints,  \* Endpoint._endpoints: endpoint name -> its relations (ids)
    relUnits,   \* Relation._units, where built: rid -> unit names in order
    allUnits,   \* Endpoint._all_units, where built: name -> <<rid, unit>>s
    reads,      \* how often the hook asked hookenv for a unit list or for the
                \* data of a unit: call -> number of calls
    views,      \* the data views that were constructed, by view id
    atexitQ,    \* the callbacks hookenv.atexit holds: relation ids to flush
    written,    \* the hookenv.relation_set calls of this hook
    err,        \* the exception the last handler operation raised, or "ok"
    changedNow, \* the data keys data_changed reported in this hook
    before,     \* history: the flags and the kv store when the hook started
    got,        \* what the last read of a view returned
    op,         \* the last operation of a handler on a view: <<name, view id>>
    nEvents, nEnv, nOps

envVars == <<envRels, envBare, envUnits, envRemote, envLocal>>

storeVars == <<flags, kv>>

objVars == <<endpoints, relUnits, allUnits, reads, views, atexitQ>>

vars == <<envRels, envBare, envUnits, envRemote, envLocal, flags, kv, pc, hook,
          endpoints, relUnits, allUnits, reads, views, atexitQ, written, err,
          changedNow, before, got, op, nEvents, nEnv, nOps>>

(***************************************************************************)
(* hookenv, as the code calls it.                                          *)
(***************************************************************************)
relation_types == EndpointTypes \cup OtherTypes

\* relation_factory(name) is an Endpoint subclass
IsEndpointFactory(name) == name \in EndpointTypes

\* a relation id as the environment reports it
Reported(rid) == IF rid \in envBare THEN SplitTail(rid, ":") ELSE rid

relation_ids(name) == {Reported(r) : r \in {x \in envRels : SplitHead(x, ":") = name}}

\* an id the environment does not know has no units
related_units(rid) == IF rid \in DOMAIN envUnits THEN envUnits[rid] ELSE {}

relation_get(unit, rid) == envRemote[<<rid, unit>>]

relation_get_local(rid) == envLocal[rid]

(***************************************************************************)
(* UnitDataView and JSONUnitDataView.  An operation that can raise gives   *)
(* [view, err]: the view afterwards and the exception, or "ok".            *)
(***************************************************************************)
UnitDataView(data, writeable) ==
    [data |-> data, writeable |-> writeable, modified |-> FALSE]

UnitDataView_modified(v) == v.modified

UnitDataView_writeable(v) == v.writeable

\* mutant of UnitDataView_get: the default is not used
UnitDataView_get_none(v, key, default) ==
    IF key \in DOMAIN v.data THEN PyStr(v.data[key]) ELSE None

UnitDataView_get(v, key, default) ==
    IF key \in DOMAIN v.data THEN PyStr(v.data[key]) ELSE default

UnitDataView_getitem(v, key) == UnitDataView_get(v, key, None)

\* mutant of UnitDataView_setitem: a read-only view is written too
UnitDataView_setitem_unguarded(v, key, value) ==
    [view |-> [v EXCEPT !.modified = TRUE, !.data = DictSet(v.data, key, value)],
     err |-> "ok"]

\* mutant of UnitDataView_setitem: storing the value already there does not
\* count as a modification
UnitDataView_setitem_if_changed(v, key, value) ==
    IF ~v.writeable
    THEN [view |-> v, err |-> "ValueError"]
    ELSE [view |-> [v EXCEPT !.modified = @ \/ key \notin DOMAIN v.data
                                           \/ v.data[key] # value,
                             !.data = DictSet(v.data, key, value)],
          err |-> "ok"]

UnitDataView_setitem(v, key, value) ==
    IF ~v.writeable
    THEN [view |-> v, err |-> "ValueError"]
    ELSE [view |-> [v EXCEPT !.modified = TRUE,
                             !.data = DictSet(v.data, key, value)],
          err |-> "ok"]

\* UserDict.__delitem__: del self.data[key]
UnitDataView_delitem(v, key) ==
    IF key \notin DOMAIN v.data
    THEN [view |-> v, err |-> "KeyError"]
    ELSE [view |-> [v EXCEPT !.data = DictDel(v.data, key)], err |-> "ok"]

JSONUnitDataView(data, writeable) == [data |-> UnitDataView(data, writeable)]

raw_data(j) == j.data

JSONUnitDataView_modified(j) == UnitDataView_modified(raw_data(j))

JSONUnitDataView_writeable(j) == UnitDataView_writeable(raw_data(j))

JSONUnitDataView_getitem(j, key) ==
    LET value == UnitDataView_getitem(raw_data(j), key)
    IN IF value = None \/ value.s = "" THEN value
       ELSE LET d == json_loads(value.s)
            IN IF d = DecodeError THEN value ELSE d

JSONUnitDataView_get(j, key, default) ==
    IF key \notin DOMAIN raw_data(j).data THEN default
    ELSE JSONUnitDataView_getitem(j, key)

JSONUnitDataView_setitem(j, key, value) ==
    LET r == UnitDataView_setitem(raw_data(j), key, json_dumps(value))
    IN [view |-> [data |-> r.view], err |-> r.err]

\* UserDict.__delitem__ of the JSON view: del self.data[key] on the raw view
JSONUnitDataView_delitem(j, key) ==
    LET r == UnitDataView_delitem(raw_data(j), key)
    IN [view |-> [data |-> r.view], err |-> r.err]

\* bool(view): a UserDict is true when it holds a key
Truthy(j) == DOMAIN raw_data(j).data # {}

(***************************************************************************)
(* KeyList and CombinedUnitsView.  A unit is <<relation id, unit name>>.   *)
(***************************************************************************)
\* the sort key of CombinedUnitsView: (i.relation.relation_id, i.unit_name)
UnitLess(a, b) == StrLess(a[1], b[1]) \/ (a[1] = b[1] /\ StrLess(a[2], b[2]))

\* sorted() of a list is stable: x goes behind the items that are not greater
RECURSIVE InsertUnit(_, _)
InsertUnit(sorted, x) ==
    IF sorted = <<>> THEN <<x>>
    ELSE IF UnitLess(x, Head(sorted)) THEN <<x>> \o sorted
    ELSE <<Head(sorted)>> \o InsertUnit(Tail(sorted), x)

RECURSIVE CombinedUnitsView(_)
CombinedUnitsView(items) ==
    IF items = <<>> THEN <<>>
    ELSE InsertUnit(CombinedUnitsView(SubSeq(items, 1, Len(items) - 1)),
                    items[Len(items)])

\* mutant of KeyList_getitem: the last unit of that name
KeyList_getitem_last(units, unit_name) ==
    IF \E i \in 1..Len(units) : units[i][2] = unit_name
    THEN CHOOSE i \in 1..Len(units) :
             /\ units[i][2] = unit_name
             /\ \A j \in (i + 1)..Len(units) : units[j][2] # unit_name
    ELSE 0

\* KeyList.__getitem__ with a str key on a list of units (key='unit_name'):
\* the index of the first unit of that name, 0 for KeyError
KeyList_getitem(units, unit_name) ==
    IF \E i \in 1..Len(units) : units[i][2] = unit_name
    THEN CHOOSE i \in 1..Len(units) :
             /\ units[i][2] = unit_name
             /\ \A j \in 1..(i - 1) : units[j][2] # unit_name
    ELSE 0

(***************************************************************************)
(* The objects of one hook, as a record st: flags, kv, endpoints,          *)
(* relUnits, allUnits, views, atexitQ, changedNow.  The lazy properties    *)
(* give the record with their cache filled.                                *)
(***************************************************************************)
PubId(rid) == <<"pub", rid, "">>

RecvId(rid, unit_name) == <<"recv", rid, unit_name>>

MergedId(owner) == <<"merged", owner, "">>

\* the log of hookenv calls after one more call
Called(log, call) ==
    DictSet(log, call, IF call \in DOMAIN log THEN log[call] + 1 ELSE 1)

RECURSIVE UnitsOf(_, _)
UnitsOf(rid, names) ==
    IF names = <<>> THEN <<>>
    ELSE <<(<<rid, Head(names)>>)>> \o UnitsOf(rid, Tail(names))

\* Relation.units
\* mutant of Relation_units: the unit list is asked for at every access
Relation_units_uncached(st, rid) ==
    [st EXCEPT !.relUnits =
         DictSet(@, rid,
                 CombinedUnitsView(UnitsOf(rid, SortedStrings(related_units(rid))))),
               !.reads = Called(@, <<"related_units", rid>>)]

Relation_units(st, rid) ==
    IF rid \in DOMAIN st.relUnits THEN st
    ELSE [st EXCEPT !.relUnits =
              DictSet(@, rid,
                      CombinedUnitsView(
                          UnitsOf(rid, SortedStrings(related_units(rid))))),
                    !.reads = Called(@, <<"related_units", rid>>)]

RECURSIVE BuildUnits(_, _)
BuildUnits(st, rels) ==
    IF rels = <<>> THEN st
    ELSE BuildUnits(Relation_units(st, Head(rels)), Tail(rels))

RECURSIVE Chain(_, _)
Chain(st, rels) ==
    IF rels = <<>> THEN <<>>
    ELSE st.relUnits[Head(rels)] \o Chain(st, Tail(rels))

\* Endpoint.all_units
Endpoint_all_units(st, name) ==
    IF name \in DOMAIN st.allUnits THEN st
    ELSE LET s1 == BuildUnits(st, st.endpoints[name])
         IN [s1 EXCEPT !.allUnits =
                 DictSet(@, name,
                         CombinedUnitsView(Chain(s1, s1.endpoints[name])))]

\* RelatedUnit.received
RelatedUnit_received(st, unit) ==
    IF RecvId(unit[1], unit[2]) \in DOMAIN st.views THEN st
    ELSE [st EXCEPT !.views =
              DictSet(@, RecvId(unit[1], unit[2]),
                      JSONUnitDataView(relation_get(unit[2], unit[1]), FALSE)),
                    !.reads = Called(@, <<"relation_get", unit[1], unit[2]>>)]

\* Relation.to_publish
Relation_to_publish(st, rid) ==
    IF PubId(rid) \in DOMAIN st.views THEN st
    ELSE [st EXCEPT !.views =
              DictSet(@, PubId(rid),
                      JSONUnitDataView(relation_get_local(rid), TRUE)),
                    !.reads = Called(@, <<"relation_get", rid, "">>)]

(***************************************************************************)
(* The flags.                                                              *)
(***************************************************************************)
Contains(s, sub) ==
    \E i \in 1..(Len(s) - Len(sub) + 1) : SubSeq(s, i, i + Len(sub) - 1) = sub

\* str.format(endpoint_name=name) on a text whose only field is
\* {endpoint_name}
RECURSIVE Format(_, _)
Format(s, name) ==
    IF s = "" THEN ""
    ELSE IF StartsWith(s, "{endpoint_name}")
    THEN name \o Format(SubSeq(s, Len("{endpoint_name}") + 1, Len(s)), name)
    ELSE CharAt(s, 1) \o Format(SubSeq(s, 2, Len(s)), name)

expand_name(name, flag) ==
    Format(IF Contains(flag, "{endpoint_name}") THEN flag
           ELSE "endpoint.{endpoint_name}." \o flag,
           name)

\* mutant of joined: a single relation does not count
joined_more_than_one(st, name) == Len(st.endpoints[name]) > 1

\* Endpoint.joined
joined(st, name) == Len(st.endpoints[name]) > 0

is_flag_set(st, flag) == flag \in st.flags

set_flag(st, flag) == [st EXCEPT !.flags = @ \cup {flag}]

toggle_flag(st, flag, should_set) ==
    [st EXCEPT !.flags = IF should_set THEN @ \cup {flag} ELSE @ \ {flag}]

\* data_changed(data_key, value): the serialized value is stored under the
\* key; the answer is whether it differs from the one stored before
data_changed(st, data_key, value) ==
    LET new == json_dumps(value)
    IN [st |-> [st EXCEPT !.kv = DictSet(@, data_key, new)],
        changed |-> (data_key \notin DOMAIN st.kv \/ st.kv[data_key] # new)]

DataKey(name, rid, unit_name, key) ==
    "endpoint." \o name \o "." \o rid \o "." \o unit_name \o "." \o key

\* mutant of CheckItem: the flag of the field is not set
CheckItem_no_field_flag(st, name, unit, key) ==
    LET value == JSONUnitDataView_getitem(st.views[RecvId(unit[1], unit[2])], key)
        data_key == DataKey(name, unit[1], unit[2], key)
        r == data_changed(st, data_key, value)
    IN IF r.changed
       THEN [set_flag(r.st, expand_name(name, "changed"))
             EXCEPT !.changedNow = @ \cup {data_key}]
       ELSE r.st

\* the body of the loop over unit.received.items(), for one item
CheckItem(st, name, unit, key) ==
    LET value == JSONUnitDataView_getitem(st.views[RecvId(unit[1], unit[2])], key)
        data_key == DataKey(name, unit[1], unit[2], key)
        r == data_changed(st, data_key, value)
    IN IF r.changed
       THEN [set_flag(set_flag(r.st, expand_name(name, "changed")),
                      expand_name(name, "changed." \o key))
             EXCEPT !.changedNow = @ \cup {data_key}]
       ELSE r.st

RECURSIVE CheckItems(_, _, _, _)
CheckItems(st, name, unit, keys) ==
    IF keys = {} THEN st
    ELSE LET key == CHOOSE k \in keys : TRUE
         IN CheckItems(CheckItem(st, name, unit, key), name, unit, keys \ {key})

\* mutant of CheckUnits: every field that may have a baseline is compared,
\* a field the unit does not hold as None
RECURSIVE CheckUnits_absent_fields(_, _, _)
CheckUnits_absent_fields(st, name, units) ==
    IF units = <<>> THEN st
    ELSE LET s1 == RelatedUnit_received(st, Head(units))
         IN CheckUnits_absent_fields(CheckItems(s1, name, Head(units), Fields),
                                     name, Tail(units))

RECURSIVE CheckUnits(_, _, _)
CheckUnits(st, name, units) ==
    IF units = <<>> THEN st
    ELSE LET s1 == RelatedUnit_received(st, Head(units))
             keys == DOMAIN raw_data(s1.views[RecvId(Head(units)[1],
                                                     Head(units)[2])]).data
         IN CheckUnits(CheckItems(s1, name, Head(units), keys), name, Tail(units))

\* mutant of departed_hook: the departed hook of any endpoint counts
departed_hook_any_endpoint(name, hook_name) == EndsWith(hook_name, "-departed")

\* mutant of ManageDeparted: the flag follows the hook, set or cleared
ManageDeparted_toggle(st, name, hook_name) ==
    toggle_flag(st, expand_name(name, "departed"),
                StartsWith(hook_name, name \o "-relation-")
                /\ EndsWith(hook_name, "-departed"))

rel_hook(name, hook_name) == StartsWith(hook_name, name \o "-relation-")

departed_hook(name, hook_name) ==
    rel_hook(name, hook_name) /\ EndsWith(hook_name, "-departed")

\* if departed_hook: set_flag(self.expand_name('departed'))
ManageDeparted(st, name, hook_name) ==
    IF departed_hook(name, hook_name)
    THEN set_flag(st, expand_name(name, "departed"))
    ELSE st

\* Endpoint._manage_flags under hook hook_name
\* mutant of manage_flags: a hook that skips the detection stores the values
\* as the new baselines without setting a flag
manage_flags_refresh_on_skip(st, name, hook_name) ==
    LET already_joined == is_flag_set(st, expand_name(name, "joined"))
        s1 == toggle_flag(st, expand_name(name, "joined"), joined(st, name))
        s2 == ManageDeparted(s1, name, hook_name)
        s3 == Endpoint_all_units(s2, name)
        s4 == CheckUnits(s3, name, s3.allUnits[name])
    IN IF already_joined /\ ~rel_hook(name, hook_name)
       THEN [s2 EXCEPT !.kv = s4.kv]
       ELSE s4

\* mutant of manage_flags: change detection runs in every hook
manage_flags_no_skip(st, name, hook_name) ==
    LET s1 == toggle_flag(st, expand_name(name, "joined"), joined(st, name))
        s2 == ManageDeparted(s1, name, hook_name)
        s3 == Endpoint_all_units(s2, name)
    IN CheckUnits(s3, name, s3.allUnits[name])

manage_flags(st, name, hook_name) ==
    LET already_joined == is_flag_set(st, expand_name(name, "joined"))
        s1 == toggle_flag(st, expand_name(name, "joined"), joined(st, name))
        s2 == ManageDeparted(s1, name, hook_name)
    IN IF already_joined /\ ~rel_hook(name, hook_name) THEN s2
       ELSE LET s3 == Endpoint_all_units(s2, name)
            IN CheckUnits(s3, name, s3.allUnits[name])

\* Relation.__init__: the endpoint name of a relation is what precedes the
\* first ':' of its id
Relation_endpoint_name(rid) == SplitHead(rid, ":")

\* the relation ids of an endpoint, with the endpoint name prefix ensured
\* mutant of NormalizeRid: the id is kept as the environment reports it
NormalizeRid_as_reported(name, rid) == rid

NormalizeRid(name, rid) == IF ~HasChar(rid, ":") THEN name \o ":" \o rid ELSE rid

RECURSIVE NormalizeRids(_, _)
NormalizeRids(name, rids) ==
    IF rids = <<>> THEN <<>>
    ELSE <<NormalizeRid(name, Head(rids))>> \o NormalizeRids(name, Tail(rids))

\* the body of Endpoint._startup's loop, for one relation type
StartupOne(st, name, hook_name) ==
    IF ~IsEndpointFactory(name) THEN st
    ELSE LET rids == NormalizeRids(name, SortedStrings(relation_ids(name)))
             s1 == [st EXCEPT !.endpoints = DictSet(@, name, rids)]
             s2 == manage_flags(s1, name, hook_name)
         IN [s2 EXCEPT !.atexitQ = @ \o rids]

RECURSIVE StartupLoop(_, _, _)
StartupLoop(st, names, hook_name) ==
    IF names = <<>> THEN st
    ELSE StartupLoop(StartupOne(st, Head(names), hook_name), Tail(names), hook_name)

\* Endpoint._startup
startup(st, hook_name) == StartupLoop(st, SortedStrings(relation_types), hook_name)

(***************************************************************************)
(* Endpoint.from_name and Endpoint.from_flag.  eps is Endpoint._endpoints; *)
(* an Endpoint instance is known by its name.                              *)
(***************************************************************************)
EndpointObj(name) == [t |-> "endpoint", name |-> name]

from_name(eps, endpoint_name) ==
    IF endpoint_name \in DOMAIN eps THEN EndpointObj(endpoint_name) ELSE None

from_flag(eps, flag) ==
    IF ~HasChar(flag, ".") THEN None
    ELSE LET parts == Split(flag, ".")
         IN IF parts[1] = "endpoint"
            THEN from_name(eps, parts[2])
            ELSE from_name(eps, parts[1])

(***************************************************************************)
(* CombinedUnitsView.received and Relation._flush_data.                    *)
(***************************************************************************)
\* mutant of MergeReversed: the units are taken from the first to the last
RECURSIVE MergeForward(_, _)
MergeForward(st, units) ==
    IF units = <<>> THEN EmptyDict
    ELSE DictUpdate(raw_data(st.views[RecvId(Head(units)[1], Head(units)[2])]).data,
                    MergeForward(st, Tail(units)))

\* the dict comprehension over reversed(self): units from the last to the
\* first, a later assignment of a key replacing an earlier one
RECURSIVE MergeReversed(_, _)
MergeReversed(st, units) ==
    IF units = <<>> THEN EmptyDict
    ELSE DictUpdate(MergeReversed(st, Tail(units)),
                    raw_data(st.views[RecvId(Head(units)[1], Head(units)[2])]).data)

RECURSIVE ReceiveAll(_, _)
ReceiveAll(st, units) ==
    IF units = <<>> THEN st
    ELSE ReceiveAll(RelatedUnit_received(st, Head(units)), Tail(units))

\* CombinedUnitsView.received of the list units, cached under owner
CombinedUnitsView_received(st, owner, units) ==
    IF MergedId(owner) \in DOMAIN st.views THEN st
    ELSE LET s1 == ReceiveAll(st, units)
         IN [s1 EXCEPT !.views =
                 DictSet(@, MergedId(owner),
                         JSONUnitDataView(MergeReversed(s1, units), FALSE))]

\* Relation._flush_data: the hookenv.relation_set calls it makes
flush_data(vs, rid) ==
    IF /\ PubId(rid) \in DOMAIN vs
       /\ Truthy(vs[PubId(rid)])
       /\ JSONUnitDataView_modified(vs[PubId(rid)])
    THEN <<(<<rid, raw_data(vs[PubId(rid)]).data>>)>>
    ELSE <<>>

(***************************************************************************)
(* The state machine.                                                      *)
(***************************************************************************)
Store == [flags |-> flags, kv |-> kv, endpoints |-> endpoints,
          relUnits |-> relUnits, allUnits |-> allUnits, views |-> views,
          atexitQ |-> atexitQ, changedNow |-> changedNow, reads |-> reads]

\* the objects of a hook are those of the record
SetObjects(st) ==
    /\ flags' = st.flags
    /\ kv' = st.kv
    /\ endpoints' = st.endpoints
    /\ relUnits' = st.relUnits
    /\ allUnits' = st.allUnits
    /\ reads' = st.reads
    /\ views' = st.views
    /\ atexitQ' = st.atexitQ
    /\ changedNow' = st.changedNow

\* the process of a hook ends: its objects are gone
DropObjects ==
    /\ endpoints' = EmptyDict
    /\ relUnits' = EmptyDict
    /\ allUnits' = EmptyDict
    /\ reads' = EmptyDict
    /\ views' = EmptyDict
    /\ atexitQ' = <<>>

\* no handler has used a view
NoOp == <<>>

NoHistory == [flags |-> {}, kv |-> EmptyDict]

Between == pc \in {"idle", "done", "failed"}

InitHook ==
    /\ flags = {}
    /\ kv = EmptyDict
    /\ pc = "idle"
    /\ hook = ""
    /\ endpoints = EmptyDict
    /\ relUnits = EmptyDict
    /\ allUnits = EmptyDict
    /\ reads = EmptyDict
    /\ views = EmptyDict
    /\ atexitQ = <<>>
    /\ written = <<>>
    /\ err = "ok"
    /\ changedNow = {}
    /\ before = NoHistory
    /\ got = None
    /\ op = NoOp
    /\ nEvents = 0
    /\ nEnv = 0
    /\ nOps = 0

\* a charm that was just deployed: no relation yet
Init ==
    /\ envRels = {}
    /\ envBare = {}
    /\ envUnits = [r \in Rids |-> {}]
    /\ envRemote = [x \in Rids \X UnitNames |-> EmptyDict]
    /\ envLocal = [r \in Rids |-> EmptyDict]
    /\ InitHook

\* --- the environment, between hooks ------------------------------------
EnvStep ==
    /\ Between
    /\ nEnv < MaxEnvSteps
    /\ nEnv' = nEnv + 1
    /\ UNCHANGED <<envBare, flags, kv, pc, hook, endpoints, relUnits, allUnits, reads,
                   views, atexitQ, written, err, changedNow, before, got, op, nEvents, nOps>>

EnvRelationCreated ==
    \E rid \in EnvRids \ envRels :
        /\ EnvStep
        /\ envRels' = envRels \cup {rid}
        /\ UNCHANGED <<envUnits, envRemote, envLocal>>

EnvUnitJoined ==
    \E rid \in envRels, u \in EnvUnitNames, k \in Fields, v \in RawVals :
        /\ u \notin envUnits[rid]
        /\ EnvStep
        /\ envUnits' = [envUnits EXCEPT ![rid] = @ \cup {u}]
        /\ envRemote' = [envRemote EXCEPT ![<<rid, u>>] = DictSet(EmptyDict, k, v)]
        /\ UNCHANGED <<envRels, envLocal>>

EnvUnitChanged ==
    \E rid \in envRels, u \in EnvUnitNames, k \in Fields, v \in RawVals :
        /\ u \in envUnits[rid]
        /\ EnvStep
        /\ envRemote' = [envRemote EXCEPT ![<<rid, u>>] = DictSet(@, k, v)]
        /\ UNCHANGED <<envRels, envUnits, envLocal>>

EnvUnitUnset ==
    \E rid \in envRels, u \in EnvUnitNames, k \in Fields :
        /\ u \in envUnits[rid]
        /\ k \in DOMAIN envRemote[<<rid, u>>]
        /\ EnvStep
        /\ envRemote' = [envRemote EXCEPT ![<<rid, u>>] = DictDel(@, k)]
        /\ UNCHANGED <<envRels, envUnits, envLocal>>

EnvUnitDeparted ==
    \E rid \in envRels, u \in EnvUnitNames :
        /\ u \in envUnits[rid]
        /\ EnvStep
        /\ envUnits' = [envUnits EXCEPT ![rid] = @ \ {u}]
        /\ envRemote' = [envRemote EXCEPT ![<<rid, u>>] = EmptyDict]
        /\ UNCHANGED <<envRels, envLocal>>

\* the relation is removed, with the units that were still on it
EnvRelationBroken ==
    \E rid \in envRels :
        /\ EnvStep
        /\ envRels' = envRels \ {rid}
        /\ envUnits' = [envUnits EXCEPT ![rid] = {}]
        /\ envRemote' = [x \in Rids \X UnitNames |->
                             IF x[1] = rid THEN EmptyDict ELSE envRemote[x]]
        /\ envLocal' = [envLocal EXCEPT ![rid] = EmptyDict]

\* --- a hook --------------------------------------------------------------
\* the hook h starts: hookenv._run_atstart runs Endpoint._startup
StartHook(h) ==
    /\ Between
    /\ nEvents < MaxEvents
    /\ nEvents' = nEvents + 1
    /\ pc' = "body"
    /\ hook' = h
    /\ SetObjects(startup([flags |-> flags, kv |-> kv,
                           endpoints |-> EmptyDict, relUnits |-> EmptyDict,
                           allUnits |-> EmptyDict, views |-> EmptyDict,
                           atexitQ |-> <<>>, changedNow |-> {},
                           reads |-> EmptyDict], h))
    /\ before' = [flags |-> flags, kv |-> kv]
    /\ written' = <<>>
    /\ err' = "ok"
    /\ got' = None
    /\ op' = NoOp
    /\ nOps' = 0
    /\ UNCHANGED <<envRels, envBare, envUnits, envRemote, envLocal, nEnv>>

HookStart == \E h \in HookNames : StartHook(h)

\* a hook that is no relation hook
HookStartOther == StartHook("config-changed")

\* hookenv._run_atexit: Relation._flush_data of every registered relation,
\* in the order of registration; the calls made and the local data after
RECURSIVE RunAtexit(_, _, _)
RunAtexit(vs, queue, acc) ==
    IF queue = <<>> THEN acc
    ELSE LET calls == flush_data(vs, Head(queue))
         IN RunAtexit(vs, Tail(queue),
                      [written |-> acc.written \o calls,
                       local |-> IF calls = <<>> THEN acc.local
                                 ELSE [acc.local EXCEPT ![Head(queue)] =
                                           DictUpdate(@, calls[1][2])]])

\* the handlers ran without an exception: the atexit callbacks are run and
\* the process ends
HookSucceed ==
    /\ pc = "body"
    /\ pc' = "done"
    /\ LET r == RunAtexit(views, atexitQ, [written |-> written, local |-> envLocal])
       IN /\ written' = r.written
          /\ envLocal' = r.local
    /\ DropObjects
    /\ hook' = ""
    /\ err' = "ok"
    /\ changedNow' = {}
    /\ before' = NoHistory
    /\ got' = None
    /\ op' = NoOp
    /\ nOps' = 0
    /\ UNCHANGED <<envRels, envBare, envUnits, envRemote, flags, kv, nEvents, nEnv>>

\* the hook fails: the process exits without running the atexit callbacks
HookFail ==
    /\ pc = "body"
    /\ pc' = "failed"
    /\ DropObjects
    /\ hook' = ""
    /\ err' = "ok"
    /\ changedNow' = {}
    /\ before' = NoHistory
    /\ got' = None
    /\ op' = NoOp
    /\ nOps' = 0
    /\ UNCHANGED <<envRels, envBare, envUnits, envRemote, envLocal, flags, kv, written,
                   nEvents, nEnv>>

\* --- the handlers of the interface layer, inside a hook --------------------
HandlerOp ==
    /\ pc = "body"
    /\ nOps < MaxOps
    /\ nOps' = nOps + 1

\* clear_flag of a flag the interface layer owns
ClearFlag ==
    \E f \in flags :
        /\ HandlerOp
        /\ flags' = flags \ {f}
        /\ err' = "ok"
        /\ UNCHANGED <<envRels, envBare, envUnits, envRemote, envLocal, kv, pc, hook,
                       endpoints, relUnits, allUnits, reads, views, atexitQ, written,
                       changedNow, before, got, op, nEvents, nEnv>>

\* --- the handlers' use of the data views ---------------------------------
\* the relations and the units a handler reaches from Endpoint.relations
HookRids ==
    UNION {{endpoints[name][i] : i \in 1..Len(endpoints[name])} :
               name \in DOMAIN endpoints}

HookUnits == {x \in HookRids \X UnitNames : x[2] \in related_units(x[1])}

\* the views a handler reaches: Relation.to_publish, RelatedUnit.received,
\* Relation.units.received and Endpoint.all_units.received
PublishViews == {PubId(rid) : rid \in HookRids}

ReceivedViews == {RecvId(x[1], x[2]) : x \in HookUnits}

MergedViews == {MergedId(o) : o \in HookRids \cup DOMAIN endpoints}

\* the property access that yields the view vid, filling the caches it
\* goes through
Access(st, vid) ==
    IF vid[1] = "pub" THEN Relation_to_publish(st, vid[2])
    ELSE IF vid[1] = "recv"
    THEN RelatedUnit_received(Relation_units(st, vid[2]), <<vid[2], vid[3]>>)
    ELSE IF vid[2] \in DOMAIN st.endpoints
    THEN LET s1 == Endpoint_all_units(st, vid[2])
         IN CombinedUnitsView_received(s1, vid[2], s1.allUnits[vid[2]])
    ELSE LET s1 == Relation_units(st, vid[2])
         IN CombinedUnitsView_received(s1, vid[2], s1.relUnits[vid[2]])

ViewOp ==
    /\ pc = "body"
    /\ nOps < MaxViewOps
    /\ nOps' = nOps + 1
    /\ UNCHANGED <<envRels, envBare, envUnits, envRemote, envLocal, flags, kv, pc, hook,
                   endpoints, atexitQ, written, changedNow, before, nEvents,
                   nEnv>>

\* the view vid becomes view v, the caches those of st
PutView(st, vid, v) ==
    /\ relUnits' = st.relUnits
    /\ allUnits' = st.allUnits
    /\ reads' = st.reads
    /\ views' = DictSet(st.views, vid, v)

\* mutant of SetItem: the assignment is written to the environment at once
SetItem_write_through(vid, key, value) ==
    LET st == Access(Store, vid)
        r == JSONUnitDataView_setitem(st.views[vid], key, value)
    IN /\ pc = "body"
       /\ nOps < MaxViewOps
       /\ nOps' = nOps + 1
       /\ PutView(st, vid, r.view)
       /\ err' = r.err
       /\ got' = None
       /\ op' = <<"setitem", vid>>
       /\ written' = written \o <<(<<vid[2], raw_data(r.view).data>>)>>
       /\ envLocal' = [envLocal EXCEPT ![vid[2]] = raw_data(r.view).data]
       /\ UNCHANGED <<envRels, envBare, envUnits, envRemote, flags, kv, pc, hook,
                      endpoints, atexitQ, changedNow, before, nEvents, nEnv>>

\* view[key] = value through the JSON view
SetItem(vid, key, value) ==
    LET st == Access(Store, vid)
        r == JSONUnitDataView_setitem(st.views[vid], key, value)
    IN /\ ViewOp
       /\ PutView(st, vid, r.view)
       /\ err' = r.err
       /\ got' = None
       /\ op' = <<"setitem", vid>>

\* mutant of SetItemRaw: the raw view is a copy of the mapping, so the write
\* does not reach the view it was taken from
SetItemRaw_detached(vid, key, value) ==
    LET st == Access(Store, vid)
        r == UnitDataView_setitem(raw_data(st.views[vid]), key, value)
    IN /\ ViewOp
       /\ PutView(st, vid, st.views[vid])
       /\ err' = r.err
       /\ got' = None
       /\ op' = <<"setitem_raw", vid>>

\* view.raw_data[key] = value (to_publish_raw, received_raw)
SetItemRaw(vid, key, value) ==
    LET st == Access(Store, vid)
        r == UnitDataView_setitem(raw_data(st.views[vid]), key, value)
    IN /\ ViewOp
       /\ PutView(st, vid, [data |-> r.view])
       /\ err' = r.err
       /\ got' = None
       /\ op' = <<"setitem_raw", vid>>

\* del view[key]
DelItem(vid, key) ==
    LET st == Access(Store, vid)
        r == JSONUnitDataView_delitem(st.views[vid], key)
    IN /\ ViewOp
       /\ PutView(st, vid, r.view)
       /\ err' = r.err
       /\ got' = None
       /\ op' = <<"delitem", vid>>

\* view[key]
GetItem(vid, key) ==
    LET st == Access(Store, vid)
    IN /\ ViewOp
       /\ PutView(st, vid, st.views[vid])
       /\ err' = "ok"
       /\ got' = JSONUnitDataView_getitem(st.views[vid], key)
       /\ op' = <<"getitem", vid>>

PublishSet == \E vid \in PublishViews, k \in Fields, v \in PyVals : SetItem(vid, k, v)

PublishSetRaw ==
    \E vid \in PublishViews, k \in Fields, v \in RawVals : SetItemRaw(vid, k, v)

PublishDel == \E vid \in PublishViews, k \in Fields : DelItem(vid, k)

PublishGet == \E vid \in PublishViews, k \in Fields : GetItem(vid, k)

ReceivedSet ==
    \E vid \in ReceivedViews \cup MergedViews, k \in Fields, v \in PyVals :
        SetItem(vid, k, v)

ReceivedSetRaw ==
    \E vid \in ReceivedViews \cup MergedViews, k \in Fields, v \in RawVals :
        SetItemRaw(vid, k, v)

ReceivedDel ==
    \E vid \in ReceivedViews \cup MergedViews, k \in Fields : DelItem(vid, k)

ReceivedGet ==
    \E vid \in ReceivedViews \cup MergedViews, k \in Fields : GetItem(vid, k)

NextFlags ==
    \/ EnvRelationCreated
    \/ EnvUnitJoined
    \/ EnvUnitChanged
    \/ EnvUnitUnset
    \/ EnvUnitDeparted
    \/ EnvRelationBroken
    \/ HookStart
    \/ ClearFlag
    \/ HookSucceed

SpecFlags == Init /\ [][NextFlags]_vars

(***************************************************************************)
(* Publication (Spec): a unit that is related already; the handlers write  *)
(* to the to_publish views, and the hook succeeds or fails.                *)
(***************************************************************************)
\* what the local unit has published on a relation when the behaviour starts
LocalSeeds == {EmptyDict, DictSet(EmptyDict, "k0", "x")}

InitPublish ==
    /\ envRels \in {{"db:2"}, {"db:10", "db:2"}, {"db:2", "web:3"}}
    /\ envBare = {}
    /\ envUnits = [r \in Rids |-> {}]
    /\ envRemote = [x \in Rids \X UnitNames |-> EmptyDict]
    /\ envLocal \in [Rids -> LocalSeeds]
    /\ \A r \in Rids \ envRels : envLocal[r] = EmptyDict
    /\ InitHook

Next ==
    \/ HookStartOther
    \/ PublishSet
    \/ PublishSetRaw
    \/ PublishDel
    \/ HookSucceed
    \/ HookFail

Spec == InitPublish /\ [][Next]_vars

\* the relation_set calls made for relation rid, in a log of calls
CallsFor(log, rid) == {i \in 1..Len(log) : log[i][1] = rid}

Modified(rid) ==
    PubId(rid) \in DOMAIN views /\ JSONUnitDataView_modified(views[PubId(rid)])

\* C1: relation_set is not called while the handlers run nor when the hook
\* fails, and the local data of the environment is then left as it was; the
\* calls of a successful hook are made by the flush of a relation that was
\* registered, with the buffered mapping of that relation
C1_WritesOnlyAtSuccessfulExit ==
    [][/\ (pc' # "done" \/ pc # "body")
          => (written' = <<>> /\ envLocal' = envLocal)
       /\ (pc = "body" /\ pc' = "done")
          => \A i \in 1..Len(written') :
                 /\ \E j \in 1..Len(atexitQ) : atexitQ[j] = written'[i][1]
                 /\ Modified(written'[i][1])
                 /\ written'[i][2] = raw_data(views[PubId(written'[i][1])]).data
      ]_vars

\* the handlers changed what a relation publishes and nothing is written yet
C1_Witness ==
    /\ pc = "body"
    /\ nOps = MaxViewOps
    /\ written = <<>>
    /\ \E rid \in envRels :
           /\ Modified(rid)
           /\ raw_data(views[PubId(rid)]).data # envLocal[rid]

\* C2: the flush of a relation calls relation_set exactly when its publish
\* view was constructed and is modified, and then once, with the buffered
\* raw mapping
C2_FlushWritesIffModified ==
    [][(pc = "body" /\ pc' = "done")
       => \A rid \in HookRids :
              IF Modified(rid)
              THEN /\ Cardinality(CallsFor(written', rid)) = 1
                   /\ \A i \in CallsFor(written', rid) :
                          written'[i][2] = raw_data(views[PubId(rid)]).data
              ELSE CallsFor(written', rid) = {}
      ]_vars

(***************************************************************************)
(* The merged views (SpecMerge) and the read-only views (SpecView): a unit *)
(* that is related on db:10 and db:2, with remote units that hold data.    *)
(***************************************************************************)
\* what a remote unit holds when the behaviour starts
RemoteSeeds ==
    {DictSet(EmptyDict, "k0", "x"),
     DictSet(EmptyDict, "k1", "1"),
     DictSet(DictSet(EmptyDict, "k0", "1"), "k1", "\"x\"")}

InitRemote ==
    /\ envRels = {"db:10", "db:2"}
    /\ envBare = {}
    /\ envUnits \in [Rids -> {{"app/0"}, {"app/0", "app/1"}, {}}]
    /\ envUnits["web:3"] = {}
    /\ envUnits["db:10"] # {}
    /\ envUnits["db:2"] # {}
    /\ envRemote \in [Rids \X UnitNames -> RemoteSeeds \cup {EmptyDict}]
    /\ \A x \in Rids \X UnitNames :
           envRemote[x] = EmptyDict <=> x[2] \notin envUnits[x[1]]
    /\ InitHook

InitUnits ==
    /\ InitRemote
    /\ envLocal = [r \in Rids |-> EmptyDict]

NextMerge ==
    \/ HookStartOther
    \/ ReceivedGet
    \/ HookSucceed

SpecMerge == InitUnits /\ [][NextMerge]_vars

InitView ==
    /\ InitRemote
    /\ envLocal = [r \in Rids |-> IF r = "db:2" THEN DictSet(EmptyDict, "k0", "x")
                                  ELSE EmptyDict]
    /\ envUnits["db:10"] = {"app/0", "app/1"}
    /\ envUnits["db:2"] = {"app/0"}
    /\ envRemote[<<"db:10", "app/1">>] =
           DictSet(DictSet(EmptyDict, "k0", "1"), "k1", "\"x\"")

NextView ==
    \/ HookStartOther
    \/ PublishSet
    \/ PublishSetRaw
    \/ PublishDel
    \/ ReceivedSet
    \/ ReceivedSetRaw
    \/ ReceivedDel
    \/ PublishGet
    \/ ReceivedGet
    \/ HookFail

SpecView == InitView /\ [][NextView]_vars

(***************************************************************************)
(* The automatic flags (SpecFlags).  AfterStartup is the state in which    *)
(* Endpoint._startup has run and no handler has acted yet; before holds    *)
(* the flags and the baselines the hook started with.                      *)
(***************************************************************************)
AfterStartup == pc = "body" /\ nOps = 0

JoinedFlag(name) == "endpoint." \o name \o ".joined"

ChangedFlag(name) == "endpoint." \o name \o ".changed"

FieldFlag(name, key) == "endpoint." \o name \o ".changed." \o key

DepartedFlag(name) == "endpoint." \o name \o ".departed"

\* the relations the environment holds for an endpoint
ActiveRelations(name) == {r \in envRels : SplitHead(r, ":") = name}

\* what the received view of a unit gives for a raw value of the environment
Fetched(raw) ==
    JSONUnitDataView_getitem(JSONUnitDataView(DictSet(EmptyDict, "f", raw), FALSE), "f")

\* the items change detection fetched in this hook: endpoint, relation id,
\* unit, field
FetchedItems ==
    {x \in EndpointTypes \X envRels \X UnitNames \X Fields :
        /\ x[1] \in DOMAIN allUnits
        /\ SplitHead(x[2], ":") = x[1]
        /\ x[3] \in envUnits[x[2]]
        /\ x[4] \in DOMAIN envRemote[<<x[2], x[3]>>]}

ItemKey(x) == DataKey(x[1], x[2], x[3], x[4])

ItemValue(x) == json_dumps(Fetched(envRemote[<<x[2], x[3]>>][x[4]]))

C4_ChangeDetection ==
    AfterStartup =>
        /\ \A x \in FetchedItems :
               /\ ItemKey(x) \in DOMAIN kv /\ kv[ItemKey(x)] = ItemValue(x)
               /\ (ItemKey(x) \in DOMAIN before.kv
                   /\ before.kv[ItemKey(x)] # ItemValue(x))
                  => /\ ChangedFlag(x[1]) \in flags
                     /\ FieldFlag(x[1], x[4]) \in flags
                     /\ ItemKey(x) \in changedNow
               /\ (ItemKey(x) \in DOMAIN before.kv
                   /\ before.kv[ItemKey(x)] = ItemValue(x))
                  => ItemKey(x) \notin changedNow
        /\ \A name \in EndpointTypes :
               (\A x \in FetchedItems :
                    x[1] = name => /\ ItemKey(x) \in DOMAIN before.kv
                                   /\ before.kv[ItemKey(x)] = ItemValue(x))
               => \A f \in {ChangedFlag(name)} \cup {FieldFlag(name, k) : k \in Fields} :
                      f \in flags <=> f \in before.flags

\* a hook fetched a value that differs from its baseline, after the changed
\* flags had been cleared
C4_Witness ==
    /\ AfterStartup
    /\ \E x \in FetchedItems :
           /\ ItemKey(x) \in DOMAIN before.kv
           /\ before.kv[ItemKey(x)] # ItemValue(x)
           /\ ChangedFlag(x[1]) \notin before.flags
           /\ FieldFlag(x[1], x[4]) \in flags

\* C5: the flag management clears no flag but joined
C5_OnlyJoinedCleared ==
    AfterStartup =>
        \A f \in before.flags :
            f \notin {JoinedFlag(name) : name \in EndpointTypes} => f \in flags

\* joined is cleared in a hook that keeps changed, changed.<field> and
\* departed
C5_Witness ==
    /\ AfterStartup
    /\ JoinedFlag("db") \in before.flags
    /\ JoinedFlag("db") \notin flags
    /\ DepartedFlag("db") \in flags
    /\ ChangedFlag("db") \in flags
    /\ \E k \in Fields : FieldFlag("db", k) \in flags

\* C6: the flag management sets departed of an endpoint exactly in the
\* <endpoint>-relation-departed hook; in any other hook the flag is as it was
C6_DepartedOnlyOwnHook ==
    AfterStartup =>
        \A name \in EndpointTypes :
            (DepartedFlag(name) \in flags) <=>
                \/ DepartedFlag(name) \in before.flags
                \/ hook = name \o "-relation-departed"

\* the departed hook of web sets departed of web and not of db
C6_Witness ==
    /\ AfterStartup
    /\ hook = "web-relation-departed"
    /\ DepartedFlag("web") \in flags
    /\ DepartedFlag("web") \notin before.flags
    /\ DepartedFlag("db") \notin flags
    /\ ActiveRelations("db") # {}


(***************************************************************************)
(* The merged views (SpecMerge).  The environment does not change in these *)
(* behaviours, so what a view must hold is read from the environment.      *)
(***************************************************************************)
\* the remote units below an owner, a relation id or an endpoint name
OwnerUnits(o) ==
    {x \in envRels \X UnitNames :
        /\ x[2] \in envUnits[x[1]]
        /\ (x[1] = o \/ SplitHead(x[1], ":") = o)}

\* those of them whose data holds the key
Holders(o, k) == {x \in OwnerUnits(o) : k \in DOMAIN envRemote[x]}

\* the first of a set of units in (relation id, unit name) order
Earliest(S) == CHOOSE x \in S : \A y \in S \ {x} : UnitLess(x, y)

\* C7: a merged received view, of a relation or of an endpoint, gives for a
\* key the value of the earliest unit in (relation id, unit name) order whose
\* data holds the key, and holds no key that no unit holds
C7_MergePrecedence ==
    \A o \in EndpointTypes \cup Rids, k \in Fields :
        MergedId(o) \in DOMAIN views =>
            IF Holders(o, k) = {}
            THEN k \notin DOMAIN raw_data(views[MergedId(o)]).data
            ELSE JSONUnitDataView_getitem(views[MergedId(o)], k)
                     = Fetched(envRemote[Earliest(Holders(o, k))][k])

\* the merged view of endpoint db was read; two units hold k0 with different
\* values, and another key has one holder only
C7_Witness ==
    /\ pc = "body"
    /\ nOps > 0
    /\ MergedId("db") \in DOMAIN views
    /\ \E x \in Holders("db", "k0"), y \in Holders("db", "k0") :
           envRemote[x]["k0"] # envRemote[y]["k0"]
    /\ Cardinality(Holders("db", "k1")) = 1
    /\ got = Fetched(envRemote[Earliest(Holders("db", "k0"))]["k0"])

\* C8: all_units[unit_name] of an endpoint is the unit of that name on the
\* lowest relation id (ids compare as strings), and among the units of that
\* name it is the one whose value the merged view gives
C8_SameNameLowestRelation ==
    \A ep \in DOMAIN allUnits, n \in UnitNames :
        LET i == KeyList_getitem(allUnits[ep], n)
            same == {x \in OwnerUnits(ep) : x[2] = n}
        IN IF same = {} THEN i = 0
           ELSE /\ i # 0
                /\ allUnits[ep][i] \in same
                /\ \A x \in same \ {allUnits[ep][i]} :
                       StrLess(allUnits[ep][i][1], x[1])
                /\ \A k \in DOMAIN envRemote[allUnits[ep][i]] :
                       /\ Earliest(Holders(ep, k))[2] = n
                              => Earliest(Holders(ep, k)) = allUnits[ep][i]
                       /\ (/\ MergedId(ep) \in DOMAIN views
                           /\ \A y \in Holders(ep, k) : y[2] = n)
                              => JSONUnitDataView_getitem(views[MergedId(ep)], k)
                                     = Fetched(envRemote[allUnits[ep][i]][k])

\* app/0 is on db:10 and on db:2 with different values of k0, no other unit
\* holds k0, and the merged view of the endpoint was read
C8_Witness ==
    /\ pc = "body"
    /\ "db" \in DOMAIN allUnits
    /\ MergedId("db") \in DOMAIN views
    /\ Holders("db", "k0") = {<<"db:10", "app/0">>, <<"db:2", "app/0">>}
    /\ envRemote[<<"db:10", "app/0">>]["k0"] # envRemote[<<"db:2", "app/0">>]["k0"]
    /\ allUnits["db"][KeyList_getitem(allUnits["db"], "app/0")][1] = "db:10"
    /\ got = Fetched(envRemote[<<"db:10", "app/0">>]["k0"])

(***************************************************************************)
(* The read-only views and the modified flag (SpecView).                   *)
(***************************************************************************)
\* the step is an assignment to the view vid, through the JSON view or the
\* raw view
Assigns(vid) ==
    /\ nOps' = nOps + 1
    /\ op' \in {<<"setitem", vid>>, <<"setitem_raw", vid>>}

\* C9: an assignment to a received view or to a merged received view raises
\* ValueError and leaves the mapping and the modified flag of the view as
\* they were (as constructed, when the access constructed it); no step of a
\* hook changes the data of a remote unit
C9_ReadOnlyViews ==
    [][/\ \A vid \in ReceivedViews \cup MergedViews :
              Assigns(vid) =>
                  /\ err' = "ValueError"
                  /\ views'[vid] = Access(Store, vid).views[vid]
                  /\ ~JSONUnitDataView_modified(views'[vid])
                  /\ \A w \in DOMAIN views : views'[w] = views[w]
       /\ envRemote' = envRemote]_vars

\* an assignment to the received view of a unit has failed, and the view
\* holds what the environment holds for the unit
C9_Witness ==
    /\ pc = "body"
    /\ err = "ValueError"
    /\ op = <<"setitem", RecvId("db:10", "app/1")>>
    /\ RecvId("db:10", "app/1") \in DOMAIN views
    /\ raw_data(views[RecvId("db:10", "app/1")]).data
           = envRemote[<<"db:10", "app/1">>]
    /\ MergedId("db") \in DOMAIN views

\* C10: a view that a step constructs without assigning to it is unmodified;
\* a successful assignment leaves its view modified, whatever it stores; a
\* view becomes modified by a successful assignment only; a modified view
\* stays modified; the JSON view reports the modified and writeable of its
\* raw view
C10_ModifiedFlag ==
    [][\A vid \in DOMAIN views' :
          LET was == vid \in DOMAIN views /\ JSONUnitDataView_modified(views[vid])
              is == JSONUnitDataView_modified(views'[vid])
          IN /\ was => is
             /\ (is /\ ~was) => (Assigns(vid) /\ err' = "ok")
             /\ (Assigns(vid) /\ err' = "ok") => is
             /\ is = raw_data(views'[vid]).modified
             /\ JSONUnitDataView_writeable(views'[vid])
                    = raw_data(views'[vid]).writeable]_vars

\* a to_publish view is modified and holds what the environment holds: the
\* assignment stored the value that was there
C10_Witness ==
    /\ pc = "body"
    /\ op = <<"setitem_raw", PubId("db:2")>>
    /\ err = "ok"
    /\ PubId("db:2") \in DOMAIN views
    /\ JSONUnitDataView_modified(views[PubId("db:2")])
    /\ raw_data(views[PubId("db:2")]).data = envLocal["db:2"]
    /\ envLocal["db:2"] # EmptyDict
    /\ \E vid \in DOMAIN views : ~JSONUnitDataView_modified(views[vid])

\* C11: after the flag management of a hook in which no relation of an
\* endpoint has a remote unit, the joined flag of the endpoint is not set
C11_JoinedRemovedWithoutUnits ==
    AfterStartup =>
        \A name \in EndpointTypes :
            (\A r \in ActiveRelations(name) : envUnits[r] = {})
                => JoinedFlag(name) \notin flags

(***************************************************************************)
(* The registry (SpecRegistry): the environment reports any set of the     *)
(* relation ids, each with or without the endpoint name prefix.            *)
(***************************************************************************)
InitRegistry ==
    /\ envRels \in SUBSET Rids
    /\ envBare \in SUBSET envRels
    /\ envUnits = [r \in Rids |-> {}]
    /\ envRemote = [x \in Rids \X UnitNames |-> EmptyDict]
    /\ envLocal = [r \in Rids |-> EmptyDict]
    /\ InitHook

\* the names and flags handlers look endpoints up by
LookupNames == {"db", "web", "endpoint", "nrpe", "mysql", ""}

LookupFlags ==
    {"endpoint.db.joined", "db.joined", "endpoint.web.changed.k0", "web.changed",
     "endpoint.endpoint.joined", "endpoint.joined", "endpoint.db", "db.",
     "endpoint", "db", "nrpe.x", "endpoint.nrpe.x", "endpoint.", ".db",
     "endpoint.mysql.joined", ""}

\* a handler calls a lookup of the registry
Lookup ==
    /\ ViewOp
    /\ err' = "ok"
    /\ UNCHANGED <<relUnits, allUnits, reads, views>>

LookupName ==
    \E n \in LookupNames :
        /\ Lookup
        /\ got' = from_name(endpoints, n)
        /\ op' = <<"from_name", n>>

LookupFlag ==
    \E f \in LookupFlags :
        /\ Lookup
        /\ got' = from_flag(endpoints, f)
        /\ op' = <<"from_flag", f>>

NextRegistry ==
    \/ HookStart
    \/ LookupName
    \/ LookupFlag
    \/ HookSucceed
    \/ HookFail

SpecRegistry == InitRegistry /\ [][NextRegistry]_vars

\* the relations a hook built for an endpoint
Built(name) == {endpoints[name][i] : i \in 1..Len(endpoints[name])}

\* C12: the id of every relation of an endpoint starts with the name of the
\* endpoint and ':', also when the environment reports it without, and the
\* endpoint name of the relation is the name of the endpoint
C12_RelationIdPrefixed ==
    \A name \in DOMAIN endpoints :
        \A rid \in Built(name) :
            /\ StartsWith(rid, name \o ":")
            /\ Relation_endpoint_name(rid) = name

\* a hook built the relations of db, one of them reported without prefix
C12_Witness ==
    /\ pc = "body"
    /\ "db" \in DOMAIN endpoints
    /\ envBare \cap Built("db") # {}
    /\ Built("db") \ envBare # {}

\* C18: the relations of every endpoint are in ascending order of their id,
\* as strings, whatever ids the environment reports with or without prefix
C18_RelationsSorted ==
    \A name \in DOMAIN endpoints :
        \A i \in 1..Len(endpoints[name]), j \in 1..Len(endpoints[name]) :
            i < j => StrLess(endpoints[name][i], endpoints[name][j])

(***************************************************************************)
(* Reading and writing values (SpecJSON): a relation db:2 with one remote  *)
(* unit; the handlers write values and read them back, and read keys that  *)
(* are missing, empty or null.                                             *)
(***************************************************************************)
\* the values handlers write: the scalars, a list, a tuple, a dict whose
\* keys were inserted out of order, a dict with a number as key
JSONVals ==
    PyVals \cup
    {PyStr(""),
     PyList(<<PyNum("1"), PyStr("x")>>),
     PyTuple(<<PyNum("1"), PyNum("2")>>),
     PyDict(<<PyStr("k1"), PyStr("k0")>>, <<PyNum("1"), None>>),
     PyDict(<<PyNum("1")>>, <<PyStr("x")>>)}

\* the raw values a unit holds under k0 when the hook starts
ReadVals == {"", "null", " null", "x", "\"x\""}

\* the defaults handlers pass to get
Defaults == {None, PyStr("d")}

InitJSON ==
    /\ envRels = {"db:2"}
    /\ envBare = {}
    /\ envUnits = [r \in Rids |-> IF r = "db:2" THEN {"app/0"} ELSE {}]
    /\ \E raw \in ReadVals \cup {"-"} :
           envRemote = [x \in Rids \X UnitNames |->
                            IF x = <<"db:2", "app/0">> /\ raw # "-"
                            THEN DictSet(EmptyDict, "k0", raw) ELSE EmptyDict]
    /\ \E raw \in {"", "null", "-"} :
           envLocal = [r \in Rids |->
                           IF r = "db:2" /\ raw # "-"
                           THEN DictSet(EmptyDict, "k0", raw) ELSE EmptyDict]
    /\ InitHook

\* view[key] = value and then view[key], in one handler
WriteReadBack ==
    \E vid \in PublishViews, k \in Fields, v \in JSONVals :
        LET st == Access(Store, vid)
            r == JSONUnitDataView_setitem(st.views[vid], k, v)
        IN /\ ViewOp
           /\ PutView(st, vid, r.view)
           /\ err' = r.err
           /\ got' = JSONUnitDataView_getitem(r.view, k)
           /\ op' = <<"write_read", vid, k, v>>

AllViews == PublishViews \cup ReceivedViews \cup MergedViews

\* view[key]
ReadItem ==
    \E vid \in AllViews, k \in Fields :
        LET st == Access(Store, vid)
        IN /\ ViewOp
           /\ PutView(st, vid, st.views[vid])
           /\ err' = "ok"
           /\ got' = JSONUnitDataView_getitem(st.views[vid], k)
           /\ op' = <<"read", vid, k>>

\* view.raw_data[key]
ReadRawItem ==
    \E vid \in AllViews, k \in Fields :
        LET st == Access(Store, vid)
        IN /\ ViewOp
           /\ PutView(st, vid, st.views[vid])
           /\ err' = "ok"
           /\ got' = UnitDataView_getitem(raw_data(st.views[vid]), k)
           /\ op' = <<"read_raw", vid, k>>

\* view.get(key, default)
ReadDefault ==
    \E vid \in AllViews, k \in Fields, d \in Defaults :
        LET st == Access(Store, vid)
        IN /\ ViewOp
           /\ PutView(st, vid, st.views[vid])
           /\ err' = "ok"
           /\ got' = JSONUnitDataView_get(st.views[vid], k, d)
           /\ op' = <<"get", vid, k, d>>

\* view.raw_data.get(key, default)
ReadRawDefault ==
    \E vid \in AllViews, k \in Fields, d \in Defaults :
        LET st == Access(Store, vid)
        IN /\ ViewOp
           /\ PutView(st, vid, st.views[vid])
           /\ err' = "ok"
           /\ got' = UnitDataView_get(raw_data(st.views[vid]), k, d)
           /\ op' = <<"get_raw", vid, k, d>>

NextJSON ==
    \/ HookStartOther
    \/ WriteReadBack
    \/ ReadItem
    \/ ReadRawItem
    \/ ReadDefault
    \/ ReadRawDefault
    \/ HookFail

SpecJSON == InitJSON /\ [][NextJSON]_vars

\* a value of JSON itself: null, a number, a string, a list of such values,
\* a dict of such values whose keys are strings
RECURSIVE Native(_)
Native(v) ==
    IF v.t = "list" THEN \A i \in 1..Len(v.items) : Native(v.items[i])
    ELSE IF v.t = "dict"
    THEN /\ \A i \in 1..Len(v.keys) : v.keys[i].t = "str"
         /\ \A i \in 1..Len(v.vals) : Native(v.vals[i])
    ELSE v.t \in {"none", "num", "str"}

\* the keys of every object of a decoded text come in ascending order
RECURSIVE KeysAscending(_)
KeysAscending(v) ==
    IF v.t = "list" THEN \A i \in 1..Len(v.items) : KeysAscending(v.items[i])
    ELSE IF v.t = "dict"
    THEN /\ \A i \in 1..Len(v.keys), j \in 1..Len(v.keys) :
                i < j => StrLess(v.keys[i].s, v.keys[j].s)
         /\ \A i \in 1..Len(v.vals) : KeysAscending(v.vals[i])
    ELSE TRUE

\* the text the publish view holds under the key that was written
WrittenText == raw_data(views[op[2]]).data[op[3]]

\* C13 as stated: whatever value a handler writes through the JSON publish
\* view, the read of the key gives a value equal to it, and the raw text is
\* a JSON text with the keys of every object in ascending order
C13_RoundTripAnyValue ==
    (op # NoOp /\ op[1] = "write_read") =>
        /\ err = "ok"
        /\ PyEq(got, op[4])
        /\ KeysAscending(json_loads(WrittenText))

\* C13: a value of JSON itself (null, number, string, list, dict with string
\* keys) that a handler writes through the JSON publish view is read back
\* equal, and the raw text holds the keys of every object in ascending order;
\* any value is read back as the decoding of the raw text
C13_RoundTripNative ==
    (op # NoOp /\ op[1] = "write_read") =>
        /\ err = "ok"
        /\ json_loads(WrittenText) # DecodeError
        /\ got = json_loads(WrittenText)
        /\ Native(op[4]) =>
               /\ PyEq(got, op[4])
               /\ KeysAscending(json_loads(WrittenText))

\* a dict whose keys were inserted out of order was written and read back
C13_Witness ==
    /\ pc = "body"
    /\ op # NoOp
    /\ op[1] = "write_read"
    /\ op[4] = PyDict(<<PyStr("k1"), PyStr("k0")>>, <<PyNum("1"), None>>)
    /\ got.keys = <<PyStr("k0"), PyStr("k1")>>
    /\ WrittenText = "{\"k0\": null, \"k1\": 1}"

\* the mapping of the view that was read
ReadData == raw_data(views[op[2]]).data

\* C14: a read of a missing key raises nothing and gives None by index and
\* the default by get, through the JSON view and the raw view; an empty raw
\* value is given as it is; the JSON view gives None for a key that is
\* present only when the raw value is the JSON text null
C14_MissingKeyReads ==
    (op # NoOp /\ op[1] \in {"read", "read_raw", "get", "get_raw"}) =>
        /\ err = "ok"
        /\ op[3] \notin DOMAIN ReadData =>
               got = IF op[1] \in {"get", "get_raw"} THEN op[4] ELSE None
        /\ (op[3] \in DOMAIN ReadData /\ ReadData[op[3]] = "") => got = PyStr("")
        /\ (op[3] \in DOMAIN ReadData /\ op[1] \in {"read", "get"} /\ got = None)
               => Strip(ReadData[op[3]]) = "null"
        /\ (op[3] \in DOMAIN ReadData /\ op[1] \in {"read_raw", "get_raw"})
               => got = PyStr(ReadData[op[3]])

\* get with a default that is not None was called for a missing key of the
\* received view of a unit
C14_Witness ==
    /\ pc = "body"
    /\ op = <<"get", RecvId("db:2", "app/0"), "k1", PyStr("d")>>
    /\ got = PyStr("d")
    /\ "k0" \in DOMAIN ReadData
    /\ ReadData["k0"] = "null"

\* the name a flag carries: the part after 'endpoint.', or the first part
NamePart(f) ==
    IF Split(f, ".")[1] = "endpoint" THEN Split(f, ".")[2] ELSE Split(f, ".")[1]

\* C15 as stated: a lookup raises nothing; for every endpoint n that was
\* built, a flag that starts with 'endpoint.<n>.' or with '<n>.' gives the
\* endpoint the lookup by name n gives; an unknown name, a flag without '.'
\* and a flag whose name part is no endpoint that was built give None
C15_LookupsAnyEndpoint ==
    /\ (op # NoOp /\ op[1] = "from_name") =>
           /\ err = "ok"
           /\ got = IF op[2] \in DOMAIN endpoints THEN EndpointObj(op[2]) ELSE None
    /\ (op # NoOp /\ op[1] = "from_flag") =>
           /\ err = "ok"
           /\ \A n \in DOMAIN endpoints :
                  (StartsWith(op[2], "endpoint." \o n \o ".")
                       \/ StartsWith(op[2], n \o "."))
                      => got = EndpointObj(n)
           /\ ~HasChar(op[2], ".") => got = None
           /\ (HasChar(op[2], ".") /\ NamePart(op[2]) \notin DOMAIN endpoints)
                  => got = None

\* the changed flags of an endpoint
ChangedFlags(name) == {ChangedFlag(name)} \cup {FieldFlag(name, k) : k \in Fields}

\* the baselines data_changed holds for an endpoint
Baselines(store, name) ==
    {k \in DOMAIN store : StartsWith(k, "endpoint." \o name \o ".")}

\* the hook skips the change detection of the endpoint: joined was set
\* before the hook and the hook is no relation hook of the endpoint
Skipped(name) ==
    /\ JoinedFlag(name) \in before.flags
    /\ ~StartsWith(hook, name \o "-relation-")

\* C16: after the flag management of a hook that skips an endpoint, no unit
\* list and no unit data of the endpoint was fetched, its changed flags are
\* those set before the hook and its baselines those stored before the hook;
\* after any other hook the unit list of every relation of the endpoint and
\* the data of every unit was fetched, and every field is the baseline
C16_SkipRule ==
    AfterStartup =>
        \A name \in EndpointTypes :
            IF Skipped(name)
            THEN /\ name \notin DOMAIN allUnits
                 /\ \A rid \in ActiveRelations(name) :
                        /\ rid \notin DOMAIN relUnits
                        /\ \A u \in UnitNames : RecvId(rid, u) \notin DOMAIN views
                 /\ flags \cap ChangedFlags(name) = before.flags \cap ChangedFlags(name)
                 /\ Baselines(kv, name) = Baselines(before.kv, name)
                 /\ \A k \in Baselines(kv, name) : kv[k] = before.kv[k]
            ELSE /\ name \in DOMAIN allUnits
                 /\ {allUnits[name][i] : i \in 1..Len(allUnits[name])}
                        = OwnerUnits(name)
                 /\ \A rid \in ActiveRelations(name) : rid \in DOMAIN relUnits
                 /\ \A x \in OwnerUnits(name) :
                        /\ RecvId(x[1], x[2]) \in DOMAIN views
                        /\ raw_data(views[RecvId(x[1], x[2])]).data = envRemote[x]
                        /\ \A k \in DOMAIN envRemote[x] :
                               /\ DataKey(name, x[1], x[2], k) \in DOMAIN kv
                               /\ kv[DataKey(name, x[1], x[2], k)]
                                      = json_dumps(Fetched(envRemote[x][k]))

\* a hook skipped db while a field of a unit of db differed from its
\* baseline, and another hook had run the detection before
C16_Witness ==
    /\ AfterStartup
    /\ Skipped("db")
    /\ \E x \in OwnerUnits("db"), k \in Fields :
           /\ k \in DOMAIN envRemote[x]
           /\ DataKey("db", x[1], x[2], k) \in DOMAIN kv
           /\ kv[DataKey("db", x[1], x[2], k)] # json_dumps(Fetched(envRemote[x][k]))

(***************************************************************************)
(* The caches of one hook: Relation.units, Endpoint.all_units,             *)
(* RelatedUnit.received and Relation.to_publish, reached over every path.  *)
(***************************************************************************)
\* Relation.application_name
Relation_application_name(st, rid) ==
    IF st.relUnits[rid] = <<>> THEN None
    ELSE SplitHead(st.relUnits[rid][1][2], "/")

\* the unit names of a list of units
RECURSIVE UnitKeys(_)
UnitKeys(units) ==
    IF units = <<>> THEN <<>>
    ELSE <<units[1][2]>> \o UnitKeys(Tail(units))

\* a handler reads a property of the object graph: the caches become those
\* of st
ReadProperty(st, what, value) ==
    /\ ViewOp
    /\ relUnits' = st.relUnits
    /\ allUnits' = st.allUnits
    /\ reads' = st.reads
    /\ views' = st.views
    /\ err' = "ok"
    /\ got' = value
    /\ op' = what

\* relation.units
ReadUnits ==
    \E rid \in HookRids :
        LET st == Relation_units(Store, rid)
        IN ReadProperty(st, <<"units", rid>>, UnitKeys(st.relUnits[rid]))

\* endpoint.all_units
ReadAllUnits ==
    \E name \in DOMAIN endpoints :
        LET st == Endpoint_all_units(Store, name)
        IN ReadProperty(st, <<"all_units", name>>, UnitKeys(st.allUnits[name]))

\* relation.application_name
ReadApplicationName ==
    \E rid \in HookRids :
        LET st == Relation_units(Store, rid)
        IN ReadProperty(st, <<"application_name", rid>>,
                        Relation_application_name(st, rid))

NextCache ==
    \/ HookStart
    \/ ReadUnits
    \/ ReadAllUnits
    \/ ReadApplicationName
    \/ PublishGet
    \/ ReceivedGet
    \/ HookSucceed

SpecCache == InitView /\ [][NextCache]_vars

\* the calls of hookenv the objects of the hook stand for
CallsCached ==
    {<<"related_units", rid>> : rid \in DOMAIN relUnits}
        \cup {<<"relation_get", vid[2], vid[3]>> :
                  vid \in {v \in DOMAIN views : v[1] \in {"pub", "recv"}}}

\* C17: in a hook, hookenv was asked exactly once for the unit list of
\* every relation whose units were reached, exactly once for the data of
\* every remote unit and of the local unit whose data was reached, and never
\* otherwise; Endpoint.all_units holds the units of the relations' own unit
\* lists, every unit's view holds what hookenv gave, and the merged views
\* hold the units' cached data
C17_FetchedOnce ==
    /\ DOMAIN reads = CallsCached
    /\ \A c \in DOMAIN reads : reads[c] = 1
    /\ \A name \in DOMAIN allUnits :
           /\ \A i \in 1..Len(endpoints[name]) :
                  endpoints[name][i] \in DOMAIN relUnits
           /\ allUnits[name] = CombinedUnitsView(Chain(Store, endpoints[name]))
    /\ \A rid \in DOMAIN relUnits :
           relUnits[rid] = CombinedUnitsView(
                               UnitsOf(rid, SortedStrings(related_units(rid))))
    /\ \A vid \in DOMAIN views :
           /\ vid[1] = "recv" =>
                  raw_data(views[vid]).data = relation_get(vid[3], vid[2])
           /\ vid[1] = "pub" =>
                  raw_data(views[vid]).data = relation_get_local(vid[2])
           /\ vid[1] = "merged" =>
                  LET units == IF vid[2] \in DOMAIN endpoints
                               THEN allUnits[vid[2]] ELSE relUnits[vid[2]]
                  IN /\ \A i \in 1..Len(units) :
                            RecvId(units[i][1], units[i][2]) \in DOMAIN views
                     /\ raw_data(views[vid]).data = MergeReversed(Store, units)

\* in a hook that is no relation hook, a unit's data was reached over the
\* endpoint's merged view and then over the unit itself
C17_Witness ==
    /\ pc = "body"
    /\ hook = "config-changed"
    /\ nOps = 2
    /\ op = <<"getitem", RecvId("db:10", "app/1")>>
    /\ MergedId("db") \in DOMAIN views
    /\ "db" \in DOMAIN allUnits
    /\ reads[<<"relation_get", "db:10", "app/1">>] = 1
    /\ reads[<<"related_units", "db:10">>] = 1

\* the relations of the endpoints in the order they were constructed:
\* endpoints ascending by name, the relations of each in list order
RECURSIVE ConstructionOrder(_, _)
ConstructionOrder(eps, names) ==
    IF names = <<>> THEN <<>>
    ELSE eps[Head(names)] \o ConstructionOrder(eps, Tail(names))

\* the flushes registered with hookenv.atexit are those of the relations
\* constructed, each once, in the order of construction, and none is of a
\* relation type whose factory is no Endpoint
RegisteredInOrder ==
    pc = "body" =>
        /\ DOMAIN endpoints = EndpointTypes
        /\ atexitQ = ConstructionOrder(endpoints, SortedStrings(DOMAIN endpoints))
        /\ \A i, j \in 1..Len(atexitQ) : atexitQ[i] = atexitQ[j] => i = j
        /\ \A i \in 1..Len(atexitQ) : Relation_endpoint_name(atexitQ[i]) \notin OtherTypes

\* the relation_set calls of a log are made in the order of the queue
InQueueOrder(log, queue) ==
    \A i, j \in 1..Len(log) :
        i < j => \E a, b \in 1..Len(queue) :
                     a < b /\ queue[a] = log[i][1] /\ queue[b] = log[j][1]

\* C19: Endpoint._startup registers the flush of every relation it
\* constructs exactly once, in the order of construction, and none for a
\* relation type whose factory is no Endpoint; when the hook succeeds every
\* modified relation is written exactly once, in that order, so that no
\* modified relation is left unwritten while another was written
C19_FlushRegisteredOnce ==
    [][/\ RegisteredInOrder'
       /\ (pc = "body" /\ pc' = "done")
          => /\ InQueueOrder(written', atexitQ)
             /\ \A rid \in HookRids :
                    Modified(rid) => Cardinality(CallsFor(written', rid)) = 1
      ]_vars

(***************************************************************************)
(* Skipped change detection (SpecSkip): the unit is related on db:2, a     *)
(* first hook has stored the baselines of what app/0 held then, and the    *)
(* handlers have cleared some of the changed flags.                        *)
(***************************************************************************)
\* the baselines the change detection stores for the data of a unit
RECURSIVE BaselinesOf(_, _, _, _)
BaselinesOf(name, unit, data, keys) ==
    IF keys = {} THEN EmptyDict
    ELSE LET key == CHOOSE k \in keys : TRUE
         IN DictSet(BaselinesOf(name, unit, data, keys \ {key}),
                    DataKey(name, unit[1], unit[2], key),
                    json_dumps(Fetched(data[key])))

\* the state after a first hook that succeeded: the objects are gone, the
\* flags and the baselines are kept
InitSkip ==
    /\ envRels = {"db:2"}
    /\ envBare = {}
    /\ envUnits = [r \in Rids |-> IF r = "db:2" THEN {"app/0"} ELSE {}]
    /\ envRemote \in [Rids \X UnitNames -> RemoteSeeds \cup {EmptyDict}]
    /\ \A x \in Rids \X UnitNames :
           envRemote[x] = EmptyDict <=> x # <<"db:2", "app/0">>
    /\ envLocal = [r \in Rids |-> EmptyDict]
    /\ \E old \in RemoteSeeds :
           /\ kv = BaselinesOf("db", <<"db:2", "app/0">>, old, DOMAIN old)
           /\ \E kept \in SUBSET ({ChangedFlag("db")}
                                     \cup {FieldFlag("db", k) : k \in DOMAIN old}) :
                  flags = {JoinedFlag("db")} \cup kept
    /\ pc = "done"
    /\ hook = ""
    /\ endpoints = EmptyDict
    /\ relUnits = EmptyDict
    /\ allUnits = EmptyDict
    /\ reads = EmptyDict
    /\ views = EmptyDict
    /\ atexitQ = <<>>
    /\ written = <<>>
    /\ err = "ok"
    /\ changedNow = {}
    /\ before = NoHistory
    /\ got = None
    /\ op = NoOp
    /\ nEvents = 0
    /\ nEnv = 0
    /\ nOps = 0

NextSkip ==
    \/ EnvUnitChanged
    \/ EnvUnitUnset
    \/ HookStart
    \/ ClearFlag
    \/ HookSucceed

SpecSkip == InitSkip /\ [][NextSkip]_vars

\* the value a unit holds for a field is not the baseline of a store
Pending(store, name, unit, key) ==
    \/ DataKey(name, unit[1], unit[2], key) \notin DOMAIN store
    \/ store[DataKey(name, unit[1], unit[2], key)]
           # json_dumps(Fetched(envRemote[unit][key]))

\* C20: when a hook starts while a field of a remote unit differs from its
\* baseline, a hook that skips the change detection of the endpoint leaves
\* the baseline as it was, so that the field still differs from it, and a
\* hook that runs the detection sets changed and changed.<field> and stores
\* the value as the baseline
C20_PendingChangeFlagged ==
    AfterStartup =>
        \A name \in EndpointTypes :
            \A x \in OwnerUnits(name), k \in Fields :
                (k \in DOMAIN envRemote[x] /\ Pending(before.kv, name, x, k))
                    => IF Skipped(name)
                       THEN /\ Pending(kv, name, x, k)
                            /\ Baselines(kv, name) = Baselines(before.kv, name)
                            /\ \A b \in Baselines(kv, name) : kv[b] = before.kv[b]
                       ELSE /\ ChangedFlag(name) \in flags
                            /\ FieldFlag(name, k) \in flags
                            /\ ~Pending(kv, name, x, k)

\* a field of app/0 differed from its baseline before the first hook of the
\* behaviour and has not changed since, so that hook skipped the detection;
\* the second hook, a relation hook of db, set
\* the changed flags that were not set before it
C20_Witness ==
    /\ AfterStartup
    /\ nEvents = 2
    /\ nEnv = 0
    /\ hook = "db-relation-changed"
    /\ ChangedFlag("db") \notin before.flags
    /\ \E k \in Fields :
           /\ k \in DOMAIN envRemote[<<"db:2", "app/0">>]
           /\ Pending(before.kv, "db", <<"db:2", "app/0">>, k)
           /\ FieldFlag("db", k) \notin before.flags
           /\ {ChangedFlag("db"), FieldFlag("db", k)} \subseteq flags
           /\ ~Pending(kv, "db", <<"db:2", "app/0">>, k)

\* C21: when a hook succeeds, every relation whose publish view was built
\* and holds a mapping other than the one the environment gave at the first
\* access is written once, with the mapping the view holds
C21_ChangedMappingWritten ==
    [][(pc = "body" /\ pc' = "done")
       => \A rid \in HookRids :
              (/\ PubId(rid) \in DOMAIN views
               /\ raw_data(views[PubId(rid)]).data # relation_get_local(rid))
                  => /\ Cardinality(CallsFor(written', rid)) = 1
                     /\ \A i \in CallsFor(written', rid) :
                            written'[i][2] = raw_data(views[PubId(rid)]).data
      ]_vars

(***************************************************************************)
(* to_publish and to_publish_raw (SpecBoth): the handlers assign through   *)
(* both views of the relations, and the hook succeeds or fails.            *)
(***************************************************************************)
NextBoth ==
    \/ HookStartOther
    \/ PublishSet
    \/ PublishSetRaw
    \/ HookSucceed
    \/ HookFail

SpecBoth == InitPublish /\ [][NextBoth]_vars

\* what the JSON view gives for a raw text: the text when it is empty or no
\* JSON, the decoded value otherwise
Decoded(text) ==
    IF text = "" \/ json_loads(text) = DecodeError THEN PyStr(text)
    ELSE json_loads(text)

\* the raw mapping of the publish view of a relation, before the first
\* access the one of the environment
Buffered(vs, rid) ==
    IF PubId(rid) \in DOMAIN vs THEN raw_data(vs[PubId(rid)]).data
    ELSE relation_get_local(rid)

\* C22: an assignment through to_publish_raw puts the text under the key of
\* the one mapping and to_publish reads it decoded; an assignment through
\* to_publish puts the serialized value there and to_publish_raw reads that
\* text; either leaves the other keys as they were and sets modified on both
\* views; the flush of a successful hook writes the mapping with the
\* assignments made through both
C22_OneMapping ==
    [][/\ \A rid \in HookRids :
              /\ (op' = <<"setitem_raw", PubId(rid)>> /\ nOps' = nOps + 1)
                 => \E k \in Fields, v \in RawVals :
                        /\ Buffered(views', rid) = DictSet(Buffered(views, rid), k, v)
                        /\ JSONUnitDataView_getitem(views'[PubId(rid)], k) = Decoded(v)
                        /\ JSONUnitDataView_modified(views'[PubId(rid)])
                        /\ UnitDataView_modified(raw_data(views'[PubId(rid)]))
              /\ (op' = <<"setitem", PubId(rid)>> /\ nOps' = nOps + 1)
                 => \E k \in Fields, v \in PyVals :
                        /\ Buffered(views', rid)
                               = DictSet(Buffered(views, rid), k, json_dumps(v))
                        /\ UnitDataView_getitem(raw_data(views'[PubId(rid)]), k)
                               = PyStr(json_dumps(v))
                        /\ JSONUnitDataView_modified(views'[PubId(rid)])
                        /\ UnitDataView_modified(raw_data(views'[PubId(rid)]))
       /\ (pc = "body" /\ pc' = "done")
          => \A rid \in HookRids :
                 Modified(rid)
                     => /\ Cardinality(CallsFor(written', rid)) = 1
                        /\ \A i \in CallsFor(written', rid) :
                               written'[i][2] = Buffered(views, rid)
      ]_vars

\* a hook succeeded after the assignment of None to k0 through to_publish
\* and of the text x to k1 through to_publish_raw of db:2, and the flush
\* wrote both
C22_Witness ==
    /\ pc = "done"
    /\ \E i \in 1..Len(written) :
           /\ written[i][1] = "db:2"
           /\ DOMAIN written[i][2] = {"k0", "k1"}
           /\ written[i][2]["k0"] = "null"
           /\ written[i][2]["k1"] = "x"

\* C23: after the flag management of a hook, a baseline stored before the
\* hook whose field was not fetched in it is what it was and was not
\* reported as changed, and every changed flag the hook set is the flag of
\* a fetched field that was reported: a field absent from the data of its
\* unit sets neither changed nor changed.<field>
C23_AbsentFieldIgnored ==
    AfterStartup =>
        /\ \A b \in DOMAIN before.kv :
               b \notin {ItemKey(x) : x \in FetchedItems}
                   => /\ b \in DOMAIN kv
                      /\ kv[b] = before.kv[b]
                      /\ b \notin changedNow
        /\ \A name \in EndpointTypes :
               /\ ChangedFlag(name) \in flags \ before.flags
                  => \E x \in FetchedItems :
                         x[1] = name /\ ItemKey(x) \in changedNow
               /\ \A k \in Fields :
                      FieldFlag(name, k) \in flags \ before.flags
                          => \E x \in FetchedItems :
                                 /\ x[1] = name
                                 /\ x[4] = k
                                 /\ ItemKey(x) \in changedNow

\* a relation hook of db ran the change detection while a unit of db no
\* longer held a field whose baseline an earlier hook had stored, and the
\* flag of the field, cleared by a handler, is not set
C23_Witness ==
    /\ AfterStartup
    /\ hook = "db-relation-changed"
    /\ "db" \in DOMAIN allUnits
    /\ \E x \in OwnerUnits("db"), k \in Fields :
           /\ k \notin DOMAIN envRemote[x]
           /\ DataKey("db", x[1], x[2], k) \in DOMAIN before.kv
           /\ DataKey("db", x[1], x[2], k) \in DOMAIN kv
           /\ FieldFlag("db", k) \notin flags

====
